---- MODULE Spec2Model ----
(***************************************************************************)
(* Model of the AutoFixer IDE backend (src/App.py): a Flask application    *)
(* that stores projects as directories under PROJECTS_DIR, each with a     *)
(* JSON descriptor project.json and the project's files and folders.       *)
(*                                                                         *)
(* Representation.                                                         *)
(*   - A path string is the sequence of its '/'-separated segments         *)
(*     ("src/Main.java" is <<"src", "Main.java">>); os.path.join of a      *)
(*     directory and a relative path is concatenation.  The segments "."   *)
(*     and ".." are resolved by the file system, as the kernel does.       *)
(*   - A file name is the sequence of its '.'-separated parts              *)
(*     ("Main.java" is <<"Main", "java">>, "" is <<"">>), which is what    *)
(*     str.split('.') returns.                                             *)
(*   - The disk is a function from the locations that exist (normalised    *)
(*     segment sequences below the working directory) to a node: a         *)
(*     directory or a file with its data.                                  *)
(*   - File data is either client text or the text json.dump wrote for a   *)
(*     descriptor, kept as the descriptor it encodes.                      *)
(*   - A JSON request body is a record holding the keys the client sent.   *)
(*     A JSON string value is [str |-> s], a JSON number is [num |-> n].   *)
(***************************************************************************)
EXTENDS Integers, Sequences, FiniteSets, TLC

VARIABLES
    disk,      \* the file system below the working directory
    now,       \* the wall clock, in milliseconds
    resp,      \* the last request and its response
    hist,      \* history of the requests served, kept to state the claims
    mix,       \* the kind of requests the clients of this run send
    pc,        \* concurrent createFile requests: each request and its position
    loaded     \* concurrent createFile requests: the descriptor each request loaded

vars == <<disk, now, resp, hist, mix, pc, loaded>>

----------------------------------------------------------------------------
(* Bounds of the model *)

\* The clock runs from 1 to MaxTime milliseconds.
MaxTime == 2

\* createFile is not issued on a descriptor that already lists MaxFiles files.
MaxFiles == 2

----------------------------------------------------------------------------
(* The file system *)

DirNode == [kind |-> "dir"]

FileNode(data) == [kind |-> "file", data |-> data]

TextData(s) == [t |-> "text", s |-> s]

Front(s) == SubSeq(s, 1, Len(s) - 1)

Last(s) == s[Len(s)]

IsPrefix(a, b) == Len(a) <= Len(b) /\ SubSeq(b, 1, Len(a)) = a

Parent(loc) == IF loc = <<>> THEN <<>> ELSE Front(loc)

IsDir(d, loc) == loc \in DOMAIN d /\ d[loc].kind = "dir"

IsFile(d, loc) == loc \in DOMAIN d /\ d[loc].kind = "file"

\* The disk with node at loc, created or replaced.
Put(d, loc, node) == [l \in DOMAIN d \cup {loc} |-> IF l = loc THEN node ELSE d[l]]

\* A failed system call: the disk is as the call left it.
Failed(d) == [ok |-> FALSE, disk |-> d]

Succeeded(d) == [ok |-> TRUE, disk |-> d]

\* One step of path resolution from directory loc.
StepSeg(loc, seg) ==
    IF seg = "." THEN loc
    ELSE IF seg = ".." THEN Parent(loc)
    ELSE Append(loc, seg)

\* Path resolution from directory cur: every component but the last must be
\* an existing directory, the last must exist.
RECURSIVE Lookup(_, _, _)
Lookup(d, cur, segs) ==
    IF segs = <<>> THEN [ok |-> TRUE, loc |-> cur]
    ELSE IF ~IsDir(d, cur) THEN [ok |-> FALSE, loc |-> cur]
    ELSE IF StepSeg(cur, Head(segs)) \notin DOMAIN d
        THEN [ok |-> FALSE, loc |-> StepSeg(cur, Head(segs))]
    ELSE Lookup(d, StepSeg(cur, Head(segs)), Tail(segs))

\* os.path.exists
path_exists(d, path) == Lookup(d, <<>>, path).ok

\* os.makedirs(path, exist_ok=True): creates the missing directories along the
\* path; fails where a component is a file.
RECURSIVE makedirs_from(_, _, _)
makedirs_from(d, cur, segs) ==
    IF segs = <<>> THEN Succeeded(d)
    ELSE IF StepSeg(cur, Head(segs)) \notin DOMAIN d
        THEN makedirs_from(Put(d, StepSeg(cur, Head(segs)), DirNode),
                           StepSeg(cur, Head(segs)), Tail(segs))
    ELSE IF IsDir(d, StepSeg(cur, Head(segs)))
        THEN makedirs_from(d, StepSeg(cur, Head(segs)), Tail(segs))
    ELSE Failed(d)

makedirs(d, path) == makedirs_from(d, <<>>, path)

\* os.path.dirname
dirname(path) == Front(path)

\* open(..., 'w') of the entry name in the directory that par resolved to:
\* creates or truncates the file; fails if the directory does not exist or
\* the name is a directory.
open_at(d, par, name) ==
    IF ~par.ok \/ ~IsDir(d, par.loc) THEN [ok |-> FALSE, disk |-> d, loc |-> <<>>]
    ELSE IF name \in {".", ".."} \/ IsDir(d, StepSeg(par.loc, name))
        THEN [ok |-> FALSE, disk |-> d, loc |-> <<>>]
    ELSE [ok |-> TRUE, disk |-> Put(d, StepSeg(par.loc, name), FileNode(TextData(""))),
          loc |-> StepSeg(par.loc, name)]

\* open(path, 'w')
open_w(d, path) == open_at(d, Lookup(d, <<>>, Front(path)), Last(path))

\* f.write(value) on the file opened and its close: write raises TypeError
\* unless the JSON value is a string, and the file stays truncated.
write_opened(o, value) ==
    IF ~o.ok THEN Failed(o.disk)
    ELSE IF "str" \notin DOMAIN value THEN Failed(o.disk)
    ELSE Succeeded(Put(o.disk, o.loc, FileNode(TextData(value.str))))

\* with open(path, 'w') as f: f.write(value)
write_text(d, path, value) == write_opened(open_w(d, path), value)

read_at(d, r) ==
    IF r.ok /\ IsFile(d, r.loc) THEN [ok |-> TRUE, data |-> d[r.loc].data]
    ELSE [ok |-> FALSE, data |-> TextData("")]

\* with open(path, 'r') as f: f.read(): fails on a directory.
read_data(d, path) == read_at(d, Lookup(d, <<>>, path))

remove_at(d, r) ==
    IF r.ok /\ IsFile(d, r.loc) THEN Succeeded([l \in DOMAIN d \ {r.loc} |-> d[l]])
    ELSE Failed(d)

\* os.remove: unlinks a file, fails on a directory.
os_remove(d, path) == remove_at(d, Lookup(d, <<>>, path))

rmtree_at(d, r) ==
    IF r.ok /\ IsDir(d, r.loc)
        THEN Succeeded([l \in {x \in DOMAIN d : ~IsPrefix(r.loc, x)} |-> d[l]])
    ELSE Failed(d)

\* shutil.rmtree: removes a directory and everything below it, fails on a file.
rmtree(d, path) == rmtree_at(d, Lookup(d, <<>>, path))

----------------------------------------------------------------------------
(* Configuration and helper functions of App.py *)

PROJECTS_DIR == <<"projects">>

None == [none |-> TRUE]

\* str(int(datetime.now().timestamp() * 1000)) for the clock values of the model
IdStr(t) == <<"1", "2", "3", "4">>[t]

\* datetime.now().isoformat() for the clock values of the model
IsoStr(t) == <<"1970-01-01T00:00:00.001000", "1970-01-01T00:00:00.002000",
               "1970-01-01T00:00:00.003000", "1970-01-01T00:00:00.004000">>[t]

get_project_path(project_id) == PROJECTS_DIR \o <<project_id>>

metadata_path(project_id) == get_project_path(project_id) \o <<"project.json">>

\* json.dump(metadata, f, indent=2): the text of the descriptor
json_dump(metadata) == [t |-> "json", m |-> metadata]

\* json.load(f): the descriptor a dumped text encodes; the client text "null"
\* is JSON for None; any other client text of the model is not JSON.
json_load(data) ==
    IF data.t = "json" THEN [ok |-> TRUE, val |-> data.m]
    ELSE IF data.s = "null" THEN [ok |-> TRUE, val |-> None]
    ELSE [ok |-> FALSE, val |-> None]

\* json.dump into the descriptor file opened, and its close.
dump_opened(o, metadata) ==
    IF ~o.ok THEN Failed(o.disk)
    ELSE Succeeded(Put(o.disk, o.loc, FileNode(json_dump(metadata))))

\* A variant of save_project_metadata that writes the descriptor to another
\* file of the project directory.
save_project_metadata_elsewhere(d, project_id, metadata) ==
    dump_opened(open_w(d, get_project_path(project_id) \o <<"metadata.json">>), metadata)

\* The descriptor file is opened for writing (truncated) and the dump written.
save_project_metadata(d, project_id, metadata) ==
    dump_opened(open_w(d, metadata_path(project_id)), metadata)

load_read(r) == IF ~r.ok THEN [ok |-> FALSE, val |-> None] ELSE json_load(r.data)

\* Returns the descriptor, None when there is no descriptor file, and raises
\* (ok = FALSE) when the file cannot be read or parsed.
load_project_metadata(d, project_id) ==
    IF path_exists(d, metadata_path(project_id))
        THEN load_read(read_data(d, metadata_path(project_id)))
    ELSE [ok |-> TRUE, val |-> None]

\* "if not metadata": None is falsy, a descriptor written by the program is a
\* non-empty dict.
Falsy(metadata) == metadata = None

----------------------------------------------------------------------------
(* Request bodies: data.get(key) and data.get(key, default) *)

HasKey(data, key) == key \in DOMAIN data

\* "not data.get('name')" for a project name (a string): absent or "".
NoProjectName(data) == ~HasKey(data, "name") \/ data.name = ""

\* "not file_name" for a JSON value: absent, or the empty string.
NoFileName(data) == ~HasKey(data, "name") \/ data.name = [str |-> <<"">>]

\* "not file_path" / "not folder_name" for a path string: absent or "".
NoPath(data, key) == ~HasKey(data, key) \/ data[key] = <<>>

\* data.get('template', 'empty')
TemplateOf(data) == IF HasKey(data, "template") THEN data.template ELSE "empty"

\* data.get('content', '')
ContentOf(data) == IF HasKey(data, "content") THEN data.content ELSE [str |-> ""]

\* The outcome of a handler: the disk it leaves, the HTTP status, the body.
Outcome(d, status, body) == [disk |-> d, status |-> status, body |-> body]

NoBody == [none |-> TRUE]

\* "except Exception": the handler answers 500; what it did to the disk stays.
Raise(d) == Outcome(d, 500, NoBody)

\* The response after the last call of a handler, which may have raised.
Answer(r, status, body) == IF r.ok THEN Outcome(r.disk, status, body) ELSE Raise(r.disk)

----------------------------------------------------------------------------
(* POST /api/projects *)

MainJavaEntry ==
    [name |-> <<"Main", "java">>, path |-> <<"src", "Main.java">>,
     content |-> "", type |-> "java"]

PomEntry ==
    [name |-> <<"pom", "xml">>, path |-> <<"pom.xml">>, content |-> "", type |-> "xml"]

maven_dirs == << <<"src", "main", "java">>, <<"src", "test", "java">> >>

\* The result of the scaffolding: the disk, the file list and the folder list.
Scaffolded(r, files, folders) ==
    [ok |-> r.ok, disk |-> r.disk, files |-> files, folders |-> folders]

\* The empty file of a template is written once its directories are made.
scaffold_file(m, file_path, files, folders) ==
    IF ~m.ok THEN Scaffolded(m, <<>>, <<>>)
    ELSE Scaffolded(write_text(m.disk, file_path, [str |-> ""]), files, folders)

\* Lines 103-121, after the first directory of maven_dirs is made.
scaffold_maven(m1, project_path) ==
    IF ~m1.ok THEN Scaffolded(m1, <<>>, <<>>)
    ELSE scaffold_file(makedirs(m1.disk, project_path \o maven_dirs[2]),
                       project_path \o <<"pom.xml">>,
                       <<PomEntry>>, << <<"src">> >> \o maven_dirs)

\* Lines 83-125: the project structure of a template.
Scaffold(d, project_path, template) ==
    IF template = "basic"
        THEN scaffold_file(makedirs(d, project_path \o <<"src">>),
                           project_path \o <<"src", "Main.java">>,
                           <<MainJavaEntry>>, << <<"src">> >>)
    ELSE IF template = "maven"
        THEN scaffold_maven(makedirs(d, project_path \o maven_dirs[1]), project_path)
    ELSE Scaffolded(makedirs(d, project_path \o <<"src">>), <<>>, << <<"src">> >>)

\* Lines 137-142
create_project_save(d, metadata) ==
    Answer(save_project_metadata(d, metadata.id, metadata), 201, metadata)

\* Lines 127-135
create_project_metadata(sc, project_id, data, t2) ==
    IF ~sc.ok THEN Raise(sc.disk)
    ELSE create_project_save(sc.disk,
            [id |-> project_id, name |-> data.name, template |-> TemplateOf(data),
             files |-> sc.files, folders |-> sc.folders, createdAt |-> IsoStr(t2)])

\* Lines 81-125
create_project_scaffold(mk, project_id, data, t2) ==
    IF ~mk.ok THEN Raise(mk.disk)
    ELSE create_project_metadata(
            Scaffold(mk.disk, get_project_path(project_id), TemplateOf(data)),
            project_id, data, t2)

\* t1 is the clock when the identifier is generated (line 77), t2 the clock when
\* createdAt is taken (line 134).
create_project(d, data, t1, t2) ==
    IF NoProjectName(data) THEN Outcome(d, 400, NoBody)
    ELSE create_project_scaffold(makedirs(d, get_project_path(IdStr(t1))),
                                 IdStr(t1), data, t2)

(* GET /api/projects/<project_id> *)
get_project_loaded(d, ld) ==
    IF ~ld.ok THEN Raise(d)
    ELSE IF Falsy(ld.val) THEN Outcome(d, 404, NoBody)
    ELSE Outcome(d, 200, ld.val)

get_project(d, project_id) == get_project_loaded(d, load_project_metadata(d, project_id))

(* DELETE /api/projects/<project_id> *)
delete_project(d, project_id) ==
    IF ~path_exists(d, get_project_path(project_id)) THEN Outcome(d, 404, NoBody)
    ELSE Answer(rmtree(d, get_project_path(project_id)), 200, NoBody)

----------------------------------------------------------------------------
(* POST /api/projects/<project_id>/files *)

\* file_name.split('.')[-1] if '.' in file_name else 'txt'
FileType(parts) == IF Len(parts) > 1 THEN Last(parts) ELSE "txt"

\* Lines 233-238
FileInfo(data) ==
    [name |-> data.name.str, path |-> data.path, content |-> ContentOf(data).str,
     type |-> FileType(data.name.str)]

\* A variant of append_file that leaves the list as it was loaded.
append_file_skipped(metadata, file_info) == metadata

\* Line 240: metadata['files'].append(file_info)
append_file(metadata, file_info) == [metadata EXCEPT !.files = Append(@, file_info)]

\* Lines 232-246: '.' in file_name raises TypeError for a name that is not a
\* string; else the entry is appended and the descriptor saved.
create_file_record(wr, project_id, data, metadata) ==
    IF ~wr.ok THEN Raise(wr.disk)
    ELSE IF ~HasKey(data.name, "str") THEN Raise(wr.disk)
    ELSE Answer(save_project_metadata(wr.disk, project_id,
                                      append_file(metadata, FileInfo(data))),
                201, FileInfo(data))

\* Lines 226-230
create_file_write(mk, full_file_path, project_id, data, metadata) ==
    IF ~mk.ok THEN Raise(mk.disk)
    ELSE create_file_record(write_text(mk.disk, full_file_path, ContentOf(data)),
                            project_id, data, metadata)

\* A variant of create_file_loaded without the 404 of lines 218-219: using a
\* descriptor that is None raises.
create_file_loaded_unchecked(ld, d, project_id, data) ==
    IF ~ld.ok \/ Falsy(ld.val) THEN Raise(d)
    ELSE create_file_write(makedirs(d, dirname(get_project_path(project_id) \o data.path)),
                           get_project_path(project_id) \o data.path,
                           project_id, data, ld.val)

\* Lines 214-226
create_file_loaded(ld, d, project_id, data) ==
    IF ~ld.ok THEN Raise(d)
    ELSE IF Falsy(ld.val) THEN Outcome(d, 404, NoBody)
    ELSE create_file_write(makedirs(d, dirname(get_project_path(project_id) \o data.path)),
                           get_project_path(project_id) \o data.path,
                           project_id, data, ld.val)

\* The parent directories are made and the file is written.
write_file(d, full_file_path, content) ==
    IF ~makedirs(d, dirname(full_file_path)).ok
        THEN Failed(makedirs(d, dirname(full_file_path)).disk)
    ELSE write_text(makedirs(d, dirname(full_file_path)).disk, full_file_path, content)

\* A variant of create_file that checks the name only after the file is written.
create_file_name_checked_late(d, project_id, data) ==
    IF NoPath(data, "path") THEN Outcome(d, 400, NoBody)
    ELSE IF NoFileName(data)
        THEN Outcome(write_file(d, get_project_path(project_id) \o data.path,
                                ContentOf(data)).disk, 400, NoBody)
    ELSE create_file_loaded(load_project_metadata(d, project_id), d, project_id, data)

create_file(d, project_id, data) ==
    IF NoFileName(data) \/ NoPath(data, "path") THEN Outcome(d, 400, NoBody)
    ELSE create_file_loaded(load_project_metadata(d, project_id), d, project_id, data)

(* GET /api/projects/<project_id>/files/<path:file_path> *)
get_file_read(d, rd) == IF ~rd.ok THEN Raise(d) ELSE Outcome(d, 200, rd.data)

get_file(d, project_id, file_path) ==
    IF ~path_exists(d, get_project_path(project_id) \o file_path)
        THEN Outcome(d, 404, NoBody)
    ELSE get_file_read(d, read_data(d, get_project_path(project_id) \o file_path))

\* The loop of lines 304-307: the first entry whose path matches gets the content.
RECURSIVE UpdateFirst(_, _, _)
UpdateFirst(files, file_path, content) ==
    IF files = <<>> THEN <<>>
    ELSE IF Head(files).path = file_path
        THEN <<[Head(files) EXCEPT !.content = content]>> \o Tail(files)
    ELSE <<Head(files)>> \o UpdateFirst(Tail(files), file_path, content)

\* Lines 302-313, with the descriptor loaded after the write
update_file_loaded(ld, d, project_id, file_path, content) ==
    IF ~ld.ok THEN Raise(d)
    ELSE IF Falsy(ld.val) THEN Outcome(d, 200, NoBody)
    ELSE Answer(save_project_metadata(d, project_id,
                    [ld.val EXCEPT !.files = UpdateFirst(@, file_path, content.str)]),
                200, NoBody)

\* Lines 297-302
update_file_written(wr, project_id, file_path, content) ==
    IF ~wr.ok THEN Raise(wr.disk)
    ELSE update_file_loaded(load_project_metadata(wr.disk, project_id), wr.disk,
                            project_id, file_path, content)

(* PUT /api/projects/<project_id>/files/<path:file_path> *)
update_file(d, project_id, file_path, data) ==
    IF ~path_exists(d, get_project_path(project_id) \o file_path)
        THEN Outcome(d, 404, NoBody)
    ELSE update_file_written(
            write_text(d, get_project_path(project_id) \o file_path, ContentOf(data)),
            project_id, file_path, ContentOf(data))

\* [f for f in metadata['files'] if f['path'] != file_path]
RECURSIVE DropPath(_, _)
DropPath(files, file_path) ==
    IF files = <<>> THEN <<>>
    ELSE IF Head(files).path = file_path THEN DropPath(Tail(files), file_path)
    ELSE <<Head(files)>> \o DropPath(Tail(files), file_path)

\* Lines 338-346, with the descriptor loaded after the removal
delete_file_loaded(ld, d, project_id, file_path) ==
    IF ~ld.ok THEN Raise(d)
    ELSE IF Falsy(ld.val) THEN Outcome(d, 200, NoBody)
    ELSE Answer(save_project_metadata(d, project_id,
                    [ld.val EXCEPT !.files = DropPath(@, file_path)]),
                200, NoBody)

\* Lines 335-338
delete_file_removed(rm, project_id, file_path) ==
    IF ~rm.ok THEN Raise(rm.disk)
    ELSE delete_file_loaded(load_project_metadata(rm.disk, project_id), rm.disk,
                            project_id, file_path)

(* DELETE /api/projects/<project_id>/files/<path:file_path> *)
delete_file(d, project_id, file_path) ==
    IF ~path_exists(d, get_project_path(project_id) \o file_path)
        THEN Outcome(d, 404, NoBody)
    ELSE delete_file_removed(os_remove(d, get_project_path(project_id) \o file_path),
                             project_id, file_path)

\* folder_name not in metadata['folders']
InSeq(x, s) == \E i \in 1..Len(s) : s[i] = x

\* Lines 377-387
create_folder_made(mk, project_id, folder_name, metadata) ==
    IF ~mk.ok THEN Raise(mk.disk)
    ELSE IF InSeq(folder_name, metadata.folders) THEN Outcome(mk.disk, 201, folder_name)
    ELSE Answer(save_project_metadata(mk.disk, project_id,
                    [metadata EXCEPT !.folders = Append(@, folder_name)]),
                201, folder_name)

\* Lines 367-377
create_folder_loaded(ld, d, project_id, folder_name) ==
    IF ~ld.ok THEN Raise(d)
    ELSE IF Falsy(ld.val) THEN Outcome(d, 404, NoBody)
    ELSE create_folder_made(makedirs(d, get_project_path(project_id) \o folder_name),
                            project_id, folder_name, ld.val)

(* POST /api/projects/<project_id>/folders *)
create_folder(d, project_id, data) ==
    IF NoPath(data, "name") THEN Outcome(d, 400, NoBody)
    ELSE create_folder_loaded(load_project_metadata(d, project_id), d, project_id, data.name)

----------------------------------------------------------------------------
(* The requests the clients send.  A run draws its requests from one mix: *)
(* a small set of requests around one part of the interface.              *)

\* A body without the keys an endpoint reads.
OtherBody == [comment |-> "x"]

MainJava == <<"src", "Main.java">>

ProjectJson == <<"project.json">>

\* A path that leaves the project directory for the descriptor of project 1.
Traversal == <<"..", IdStr(1), "project.json">>

ProjectIds == {IdStr(t) : t \in 1..MaxTime}

Mixes == {"projects", "files", "values", "folders", "descriptor", "traversal"}

\* createFile bodies with the name or the path empty or absent.
BadFileBodies ==
    {[name |-> [str |-> <<"">>], path |-> MainJava, content |-> [str |-> "x"]],
     [path |-> MainJava, content |-> [str |-> "x"]],
     [name |-> [str |-> <<"Main", "java">>], path |-> <<>>, content |-> [str |-> "x"]],
     [name |-> [str |-> <<"Main", "java">>]]}

ProjectBodies(m) ==
    CASE m = "projects" ->
           {[name |-> "Demo"], [name |-> "Demo", template |-> "basic"],
            [name |-> "Demo", template |-> "maven"], [name |-> ""], [template |-> "basic"]}
      [] m \in {"files", "values", "folders"} -> {[name |-> "Demo", template |-> "basic"]}
      [] m = "race" -> {[name |-> "Demo"], [name |-> "Demo", template |-> "basic"]}
      [] OTHER -> {[name |-> "Demo"]}

\* createFile bodies: well-formed ones, ones whose name or content is a JSON
\* number, and the bad ones.
FileBodies(m) ==
    CASE m = "projects" -> BadFileBodies
      [] m = "files" ->
           {[name |-> [str |-> <<"Main", "java">>], path |-> MainJava, content |-> [str |-> "x"]]}
      [] m = "values" ->
           {[name |-> [num |-> 7], path |-> MainJava, content |-> [str |-> "x"]],
            [name |-> [str |-> <<"Main", "java">>], path |-> MainJava, content |-> [num |-> 7]]}
      [] m = "descriptor" ->
           {[name |-> [str |-> <<"notes">>], path |-> ProjectJson, content |-> [str |-> "x"]]}
      [] m = "traversal" ->
           {[name |-> [str |-> <<"notes">>], path |-> Traversal, content |-> [str |-> "x"]]}
      [] OTHER -> {}

\* updateFile requests: the path in the URL and the body.
UpdateRequests(m) ==
    CASE m = "files" -> {<<MainJava, [content |-> [str |-> "x"]]>>}
      [] m = "values" -> {<<MainJava, OtherBody>>, <<MainJava, [content |-> [num |-> 7]]>>}
      [] m = "descriptor" ->
           {<<ProjectJson, [content |-> [str |-> "x"]]>>,
            <<ProjectJson, [content |-> [str |-> "null"]]>>}
      [] m = "traversal" -> {<<Traversal, [content |-> [str |-> "x"]]>>}
      [] OTHER -> {}

\* The paths of the deleteFile requests.
DeletePaths(m) ==
    CASE m \in {"files", "folders"} -> {MainJava}
      [] m = "descriptor" -> {ProjectJson}
      [] m = "traversal" -> {Traversal}
      [] OTHER -> {}

\* The paths of the readFile requests.
ReadPaths(m) ==
    CASE m = "descriptor" -> {ProjectJson}
      [] m = "traversal" -> {ProjectJson, Traversal}
      [] OTHER -> {MainJava}

FolderBodies(m) ==
    CASE m = "folders" -> {[name |-> MainJava], [name |-> <<"lib">>], [name |-> <<>>], OtherBody}
      [] OTHER -> {}

----------------------------------------------------------------------------
(* The server handling one request at a time *)

Idle == [op |-> "idle"]

\* The request handled last and its response; had_dir tells whether the
\* project directory existed when the request arrived.
Request(d, op, project_id, file_path, data, out) ==
    [op |-> op, pid |-> project_id, path |-> file_path, data |-> data,
     had_dir |-> path_exists(d, get_project_path(project_id)),
     status |-> out.status, body |-> out.body]

\* The length of the file list of a descriptor loaded, 0 without one.
FilesLoaded(ld) == IF ld.ok /\ ~Falsy(ld.val) THEN Len(ld.val.files) ELSE 0

NumFiles(d, project_id) == FilesLoaded(load_project_metadata(d, project_id))

(* The history.                                                            *)
(*   written: per (project, path), the content of the last successful      *)
(*            createFile or updateFile, forgotten when the file or the     *)
(*            project is deleted or the project created again;             *)
(*   gone:    the (project, path) pairs deleted by a successful            *)
(*            deleteFile, forgotten at the next createFile of that path    *)
(*            and when the project is created again;                       *)
(*   live:    the identifiers created by createProject and not deleted     *)
(*            by deleteProject since;                                      *)
(*   deleted: the identifiers deleted by deleteProject and not created     *)
(*            again since.                                                 *)
NoHistory == [written |-> {}, gone |-> {}, live |-> {}, deleted |-> {}]

Forget(w, project_id, file_path) ==
    {x \in w : ~(x.pid = project_id /\ x.path = file_path)}

ForgetProject(w, project_id) == {x \in w : x.pid # project_id}

Remember(w, project_id, file_path, content) ==
    Forget(w, project_id, file_path)
        \cup {[pid |-> project_id, path |-> file_path, content |-> content]}

InitDisk == (<<>> :> DirNode) @@ (PROJECTS_DIR :> DirNode)

Init ==
    /\ disk = InitDisk
    /\ now = 1
    /\ resp = Idle
    /\ hist = NoHistory
    /\ mix \in Mixes
    /\ pc = <<>>
    /\ loaded = <<>>

CreateProject ==
    /\ resp = Idle
    /\ \E data \in ProjectBodies(mix), t1 \in now..MaxTime :
         \E t2 \in t1..MaxTime :
           \E out \in {create_project(disk, data, t1, t2)}, id \in {IdStr(t1)} :
               /\ disk' = out.disk
               /\ now' = t2
               /\ resp' = Request(disk, "createProject", id, <<>>, data, out)
               /\ hist' = IF out.status = 201
                            THEN [written |-> ForgetProject(hist.written, id),
                                  gone    |-> ForgetProject(hist.gone, id),
                                  live    |-> hist.live \cup {id},
                                  deleted |-> hist.deleted \ {id}]
                            ELSE hist
    /\ UNCHANGED <<mix, pc, loaded>>

GetProject ==
    /\ resp = Idle
    /\ \E project_id \in ProjectIds :
         \E out \in {get_project(disk, project_id)} :
             /\ disk' = out.disk
             /\ resp' = Request(disk, "getProject", project_id, <<>>, OtherBody, out)
    /\ UNCHANGED <<now, hist, mix, pc, loaded>>

DeleteProject ==
    /\ resp = Idle
    /\ \E project_id \in ProjectIds :
         \E out \in {delete_project(disk, project_id)} :
             /\ disk' = out.disk
             /\ resp' = Request(disk, "deleteProject", project_id, <<>>, OtherBody, out)
             /\ hist' = IF out.status = 200
                          THEN [hist EXCEPT
                                  !.written = ForgetProject(@, project_id),
                                  !.live    = @ \ {project_id},
                                  !.deleted = @ \cup {project_id}]
                          ELSE hist
    /\ UNCHANGED <<now, mix, pc, loaded>>

CreateFile ==
    /\ resp = Idle
    /\ \E project_id \in ProjectIds, data \in FileBodies(mix) :
         \E out \in {create_file(disk, project_id, data)},
            file_path \in {IF HasKey(data, "path") THEN data.path ELSE <<>>} :
             /\ NumFiles(disk, project_id) < MaxFiles
             /\ disk' = out.disk
             /\ resp' = Request(disk, "createFile", project_id, file_path, data, out)
             /\ hist' = [hist EXCEPT
                           !.written = IF out.status = 201
                                         THEN Remember(@, project_id, file_path,
                                                       out.body.content)
                                         ELSE @,
                           !.gone = Forget(@, project_id, file_path)]
    /\ UNCHANGED <<now, mix, pc, loaded>>

ReadFile ==
    /\ resp = Idle
    /\ \E project_id \in ProjectIds, file_path \in ReadPaths(mix) :
         \E out \in {get_file(disk, project_id, file_path)} :
             /\ disk' = out.disk
             /\ resp' = Request(disk, "readFile", project_id, file_path, OtherBody, out)
    /\ UNCHANGED <<now, hist, mix, pc, loaded>>

UpdateFile ==
    /\ resp = Idle
    /\ \E project_id \in ProjectIds, rq \in UpdateRequests(mix) :
         \E out \in {update_file(disk, project_id, rq[1], rq[2])} :
             /\ disk' = out.disk
             /\ resp' = Request(disk, "updateFile", project_id, rq[1], rq[2], out)
             /\ hist' = IF out.status = 200
                          THEN [hist EXCEPT !.written =
                                  Remember(@, project_id, rq[1], ContentOf(rq[2]).str)]
                          ELSE hist
    /\ UNCHANGED <<now, mix, pc, loaded>>

DeleteFile ==
    /\ resp = Idle
    /\ \E project_id \in ProjectIds, file_path \in DeletePaths(mix) :
         \E out \in {delete_file(disk, project_id, file_path)} :
             /\ disk' = out.disk
             /\ resp' = Request(disk, "deleteFile", project_id, file_path, OtherBody, out)
             /\ hist' = IF out.status = 200
                          THEN [hist EXCEPT
                                  !.written = Forget(@, project_id, file_path),
                                  !.gone = @ \cup {[pid |-> project_id, path |-> file_path]}]
                          ELSE hist
    /\ UNCHANGED <<now, mix, pc, loaded>>

CreateFolder ==
    /\ resp = Idle
    /\ \E project_id \in ProjectIds, data \in FolderBodies(mix) :
         \E out \in {create_folder(disk, project_id, data)} :
             /\ disk' = out.disk
             /\ resp' = Request(disk, "createFolder", project_id, <<>>, data, out)
    /\ UNCHANGED <<now, hist, mix, pc, loaded>>

\* The response reaches the client; the server takes the next request.
Respond ==
    /\ resp # Idle
    /\ resp' = Idle
    /\ UNCHANGED <<disk, now, hist, mix, pc, loaded>>

Next ==
    \/ CreateProject
    \/ GetProject
    \/ DeleteProject
    \/ CreateFile
    \/ ReadFile
    \/ UpdateFile
    \/ DeleteFile
    \/ CreateFolder
    \/ Respond

Spec == Init /\ [][Next]_vars

----------------------------------------------------------------------------
(* Claims about the server handling one request at a time *)

FileOps == {"createFile", "readFile", "updateFile", "deleteFile", "createFolder"}

\* The request lacks a field its endpoint requires.
MissingField(r) ==
    \/ r.op = "createFile" /\ (NoFileName(r.data) \/ NoPath(r.data, "path"))
    \/ r.op = "createFolder" /\ NoPath(r.data, "name")

\* The paths of a file list are pairwise different.
UniquePaths(files) ==
    \A i, j \in 1..Len(files) : files[i].path = files[j].path => i = j

HasEntry(files, file_path) == \E i \in 1..Len(files) : files[i].path = file_path

C2_Original ==
    \A w \in hist.written :
        get_project(disk, w.pid).status = 200 =>
            get_file(disk, w.pid, w.path) = Outcome(disk, 200, TextData(w.content))

\* C3, as stated: after a successful deleteFile of F and until the next
\* createFile of F, readFile of F is answered 404 and the file list of
\* getProject has no entry of path F.
C3_Original ==
    \A g \in hist.gone :
        /\ get_file(disk, g.pid, g.path).status = 404
        /\ get_project(disk, g.pid).status = 200 =>
              ~HasEntry(get_project(disk, g.pid).body.files, g.path)

\* C4: right after a successful createProject, getProject of the identifier
\* returned answers 200 with the project createProject returned.
C4_RoundTrip ==
    (resp.op = "createProject" /\ resp.status = 201) =>
        get_project(disk, resp.pid) = Outcome(disk, 200, resp.body)

\* C4 witness: a maven project was created on a directory that existed.
C4_Witness ==
    /\ resp.op = "createProject"
    /\ resp.status = 201
    /\ resp.body.template = "maven"
    /\ resp.had_dir
    /\ get_project(disk, resp.pid).status = 200

\* C5, as stated: after a successful deleteProject, getProject of the
\* identifier is answered 404 until a project of that identifier is created
\* again; and deleteProject is answered 404 exactly when the project
\* directory does not exist.
C5_Original ==
    /\ \A id \in hist.deleted : get_project(disk, id).status = 404
    /\ resp.op = "deleteProject" => (resp.status = 404 <=> ~resp.had_dir)

\* C6: a createFile whose name or path is empty or absent is answered 400 and
\* leaves the disk unchanged, whether or not the project exists.
C6_Validation ==
    [][(resp'.op = "createFile" /\ MissingField(resp'))
          => (resp'.status = 400 /\ disk' = disk)]_vars

\* C6 witness: such a request was answered 400 on a project that exists and
\* holds the file the request names.
C6_Witness ==
    /\ resp.op = "createFile"
    /\ MissingField(resp)
    /\ resp.status = 400
    /\ get_project(disk, resp.pid).status = 200
    /\ HasKey(resp.data, "path")
    /\ resp.path # <<>>
    /\ get_file(disk, resp.pid, resp.path).status = 200

\* C7, as stated: in every descriptor the paths of the file list are unique.
C7_Original ==
    \A id \in ProjectIds :
        get_project(disk, id).status = 200 =>
            UniquePaths(get_project(disk, id).body.files)

\* C8, as stated: every project created and not deleted has its descriptor at
\* project.json, with the identifier of its directory, so that getProject
\* returns it.
C8_Original ==
    \A id \in hist.live :
        /\ get_project(disk, id).status = 200
        /\ get_project(disk, id).body.id = id

\* C10, as stated: with requests handled one at a time, every entry of every
\* descriptor's file list has a file on disk at its path whose content is the
\* entry's content.
C10_Original ==
    \A id \in ProjectIds :
        get_project(disk, id).status = 200 =>
            \A i \in 1..Len(get_project(disk, id).body.files) :
                LET e == get_project(disk, id).body.files[i]
                IN  get_file(disk, id, e.path) = Outcome(disk, 200, TextData(e.content))

----------------------------------------------------------------------------
(* Two createFile requests handled concurrently.  The development server   *)
(* handles each request in its own thread; the steps of create_file are    *)
(* its system calls on the shared disk.                                    *)

Threads == {1, 2}

AppJava == <<"src", "App.java">>

\* The createFile bodies of the concurrent requests.
RaceBodies ==
    {[name |-> [str |-> <<"Main", "java">>], path |-> MainJava, content |-> [str |-> "x"]],
     [name |-> [str |-> <<"App", "java">>], path |-> AppJava, content |-> [str |-> "y"]],
     [name |-> [num |-> 7], path |-> AppJava, content |-> [str |-> "y"]],
     [name |-> [str |-> <<"">>], path |-> AppJava, content |-> [str |-> "y"]]}

At(i, where) == pc[i].at = where

Goto(i, where) == pc' = [pc EXCEPT ![i].at = where]

Done(i, status) == pc' = [pc EXCEPT ![i].at = "done", ![i].status = status]

AllIdle == \A i \in Threads : At(i, "idle")

InitConc ==
    /\ disk = InitDisk
    /\ now = 1
    /\ resp = Idle
    /\ hist = NoHistory
    /\ mix = "race"
    /\ pc = [i \in Threads |-> [at |-> "idle", pid |-> "", data |-> OtherBody, status |-> 0]]
    /\ loaded = [i \in Threads |-> None]

\* Projects are created before the concurrent requests arrive.
Setup == AllIdle /\ (CreateProject \/ Respond)

\* Lines 203-212: the request arrives and its fields are validated.
Begin(i) ==
    /\ At(i, "idle")
    /\ resp = Idle
    /\ \E project_id \in ProjectIds, data \in RaceBodies :
         pc' = [pc EXCEPT ![i] =
                  IF NoFileName(data) \/ NoPath(data, "path")
                    THEN [at |-> "done", pid |-> project_id, data |-> data, status |-> 400]
                    ELSE [at |-> "load", pid |-> project_id, data |-> data, status |-> 0]]
    /\ UNCHANGED <<disk, now, resp, hist, mix, loaded>>

\* Lines 214-219: the descriptor is loaded.
Load(i) ==
    /\ At(i, "load")
    /\ \E ld \in {load_project_metadata(disk, pc[i].pid)} :
         IF ~ld.ok THEN Done(i, 500) /\ UNCHANGED loaded
         ELSE IF Falsy(ld.val) THEN Done(i, 404) /\ UNCHANGED loaded
         ELSE Goto(i, "write") /\ loaded' = [loaded EXCEPT ![i] = ld.val]
    /\ UNCHANGED <<disk, now, resp, hist, mix>>

\* Lines 221-230
Write(i) ==
    /\ At(i, "write")
    /\ \E wr \in {write_file(disk, get_project_path(pc[i].pid) \o pc[i].data.path,
                             ContentOf(pc[i].data))} :
         /\ disk' = wr.disk
         /\ IF wr.ok THEN Goto(i, "append") ELSE Done(i, 500)
    /\ UNCHANGED <<now, resp, hist, mix, loaded>>

\* Lines 232-240 and 23-25: the entry is appended to the descriptor loaded
\* and the descriptor file is opened for writing, which truncates it.
Open(i) ==
    /\ At(i, "append")
    /\ \E o \in {open_w(disk, metadata_path(pc[i].pid))} :
         IF ~HasKey(pc[i].data.name, "str") THEN Done(i, 500) /\ UNCHANGED <<disk, loaded>>
         ELSE IF ~o.ok THEN Done(i, 500) /\ UNCHANGED <<disk, loaded>>
         ELSE /\ Goto(i, "dump")
              /\ disk' = o.disk
              /\ loaded' = [loaded EXCEPT ![i] = append_file(@, FileInfo(pc[i].data))]
    /\ UNCHANGED <<now, resp, hist, mix>>

\* Lines 26 and 243-246: the descriptor is dumped into the open file, the
\* file is closed and 201 is answered.
Dump(i) ==
    /\ At(i, "dump")
    /\ disk' = Put(disk, metadata_path(pc[i].pid), FileNode(json_dump(loaded[i])))
    /\ Done(i, 201)
    /\ UNCHANGED <<now, resp, hist, mix, loaded>>

NextConc ==
    \/ Setup
    \/ \E i \in Threads : Begin(i)
    \/ \E i \in Threads : Load(i)
    \/ \E i \in Threads : Write(i)
    \/ \E i \in Threads : Open(i)
    \/ \E i \in Threads : Dump(i)

SpecConc == InitConc /\ [][NextConc]_vars

\* Both concurrent requests were answered 201, for one project and two paths.
BothCreated ==
    /\ \A i \in Threads : At(i, "done") /\ pc[i].status = 201
    /\ pc[1].pid = pc[2].pid
    /\ pc[1].data.path # pc[2].data.path

\* C9: when two concurrent createFile requests on one project with different
\* paths are both answered 201, both files are on disk with their contents
\* and the descriptor on disk is the one the last request to save wrote: the
\* list it loaded plus its own entry, whether or not the other one is in it.
C9_LastWriterWins ==
    BothCreated =>
        /\ \A i \in Threads :
               get_file(disk, pc[i].pid, pc[i].data.path)
                   = Outcome(disk, 200, TextData(pc[i].data.content.str))
        /\ get_project(disk, pc[1].pid).status = 200
        /\ \E i \in Threads :
               /\ get_project(disk, pc[1].pid).body = loaded[i]
               /\ HasEntry(loaded[i].files, pc[i].data.path)

\* C9 witness: both were answered 201, both files are on disk, and the
\* descriptor lists the file of only one of them.
C9_Witness ==
    /\ BothCreated
    /\ \A i \in Threads : get_file(disk, pc[i].pid, pc[i].data.path).status = 200
    /\ get_project(disk, pc[1].pid).status = 200
    /\ \E i \in Threads :
           ~HasEntry(get_project(disk, pc[1].pid).body.files, pc[i].data.path)

====
